---- MODULE Spec2Model ----
(***************************************************************************)
(* Feast Italy price-drop monitor: the Check Workflow (main.py), the Sync  *)
(* Workflow (sync_products.py) and the Airtable helpers they call          *)
(* (airtable_client.py), over the two tables Products and Price History.   *)
(*                                                                         *)
(* Optional values (Python None / a missing Airtable field) are modelled   *)
(* as the empty tuple, a present value v as <<v>>.  Prices are naturals    *)
(* (pence).  An Airtable record id is the row's index in its table.        *)
(***************************************************************************)
EXTENDS Integers, Sequences, FiniteSets, TLC

\* ---------------------------------------------------------------- bounds
\* fetched and listed prices are 0..MaxPrice
MaxPrice == 1
\* number of workflow processes (main or sync) run one after the other
MaxRuns == 2

\* the storefront's handles; a listing has at most MaxListing entries, enough to
\* name every handle, or one handle twice
Handles == {"a", "b"}
MaxListing == Cardinality(Handles)
Prices == 0..MaxPrice

None == << >>
Some(v) == <<v>>

OptPrices == {None} \cup {Some(p) : p \in Prices}
OptHandles == {None, Some("")} \cup {Some(h) : h \in Handles}

VARIABLES
    Products,       \* the Products table: sequence of rows
    PriceHistory,   \* the Price History table: sequence of rows
    clock,          \* datetime.now() of the next store write
    runs,           \* number of workflow processes started so far
    proc,           \* the process running or last run: "none" | "main" | "sync"
    pc,             \* "idle" (no process yet, or the last one ran to its end) |
                    \* "fetch" (while-loop of fetch_collection_products) |
                    \* "died" (the last one was ended by an uncaught exception) |
                    \* "main" (for-loop of main) | "check" (inside check_product) |
                    \* "sync" (for-loop of sync)
    exit,           \* exit status of the last finished process, None while none finished
    products,       \* main: the list returned by get_monitored_products()
    i,              \* main: 1-based position of `record` in products
    errors,         \* main: errors
    step,           \* check_product: position in check_product_writes
    price_data,     \* check_product: price_data.price
    trace,          \* per run: <<[id, result]>> of the check_product calls made so far
    fetches,        \* per run: handles fetch_price was called with
    pre,            \* the store as it was when the current check_product call began
    recorded,       \* all runs: <<[id, result]>> of the check_product calls that ended
                    \* after their log_price_check call had succeeded
    listing,        \* fetch_collection_products: products, and the list sync gets from it
    page,           \* fetch_collection_products: page
    requests,       \* per sync run: <<[page, batch]>> of the listing pages requested and received
    j,              \* sync: 1-based position of `p` in listing
    added,          \* sync: added
    skipped,        \* sync: skipped
    upserts,        \* per sync run: the upsert_product calls made: the handle, the table
                    \* before the call, whether a row was created, the record returned
    reported        \* sync: the final "Sync complete" tally, None when not logged

vars == <<Products, PriceHistory, clock, runs, proc, pc, exit, products, i, errors, step,
          price_data, trace, fetches, pre, recorded, listing, page, requests, j, added, skipped,
          upserts, reported>>

storeVars == <<Products, PriceHistory, clock>>
mainVars == <<products, i, errors, step, price_data, trace, fetches, pre, recorded>>
syncVars == <<listing, page, requests, j, added, skipped, upserts, reported>>

\* ------------------------------------------------------- Python helpers
\* `not x` for an optional string
Falsy(h) == IF h = None THEN TRUE ELSE h[1] = ""

Last(s) == s[Len(s)]

\* the record ids of a table, in table order
Ids(rows) == [k \in 1..Len(rows) |-> k]

\* ------------------------------------------------- airtable_client.py
Record(id) == [id |-> id, fields |-> Products[id]]

\* mutant: the lookup finds nothing
get_product_by_handle_never_finds(handle) == None

\* mutant: the lookup filters on the wrong field
get_product_by_handle_by_name(handle) ==
    LET records == SelectSeq(Ids(Products), LAMBDA k : Products[k].Name = handle)
    IN  IF records # << >> THEN Some(Record(records[1])) ELSE None

get_product_by_handle(handle) ==
    LET records == SelectSeq(Ids(Products), LAMBDA k : Products[k].Handle = Some(handle))
    IN  IF records # << >> THEN Some(Record(records[1])) ELSE None

get_monitored_products ==
    LET ids == SelectSeq(Ids(Products), LAMBDA k : Products[k].Monitor)
    IN  [k \in 1..Len(ids) |-> Record(ids[k])]

\* mutant: only the timestamp is written
update_product_timestamp_only(record_id, price, checked_at) ==
    [Products EXCEPT ![record_id].Checked = Some(checked_at)]

\* mutant: the price and the timestamp are written to every record of the table
update_product_every_record(record_id, price, checked_at) ==
    [k \in 1..Len(Products) |->
        [Products[k] EXCEPT !.Price = Some(price), !.Checked = Some(checked_at)]]

\* mutant: the record is replaced by the two fields, the fields left out are cleared
update_product_replaces(record_id, price, checked_at) ==
    [Products EXCEPT ![record_id] = [Handle |-> None, Name |-> "", Price |-> Some(price),
                                     Checked |-> Some(checked_at), Monitor |-> FALSE]]

update_product(record_id, price, checked_at) ==
    [Products EXCEPT ![record_id].Price = Some(price),
                     ![record_id].Checked = Some(checked_at)]

\* mutant: `previous_price or 0` instead of omitting the field
log_price_check_fields_zero_default(product_record_id, price, previous_price, price_dropped, checked_at) ==
    [Product |-> product_record_id,
     Price |-> price,
     At |-> checked_at,
     Dropped |-> price_dropped,
     Previous |-> IF previous_price # None THEN previous_price ELSE Some(0)]

\* mutant: `if previous_price:` instead of `if previous_price is not None:`
log_price_check_fields_truthy(product_record_id, price, previous_price, price_dropped, checked_at) ==
    [Product |-> product_record_id,
     Price |-> price,
     At |-> checked_at,
     Dropped |-> price_dropped,
     Previous |-> IF previous_price # None /\ previous_price[1] # 0
                  THEN previous_price ELSE None]

log_price_check_fields(product_record_id, price, previous_price, price_dropped, checked_at) ==
    [Product |-> product_record_id,
     Price |-> price,
     At |-> checked_at,
     Dropped |-> price_dropped,
     Previous |-> IF previous_price # None THEN previous_price ELSE None]

\* mutant: the newest row is written over instead of a row being created
log_price_check_overwrites(product_record_id, price, previous_price, price_dropped, checked_at) ==
    LET fields == log_price_check_fields(product_record_id, price, previous_price,
                                         price_dropped, checked_at)
    IN  IF PriceHistory = << >> THEN <<fields>>
        ELSE [PriceHistory EXCEPT ![Len(PriceHistory)] = fields]

log_price_check(product_record_id, price, previous_price, price_dropped, checked_at) ==
    Append(PriceHistory,
           log_price_check_fields(product_record_id, price, previous_price,
                                  price_dropped, checked_at))

\* upsert_product: lookup by handle, create when absent (Monitor off)
NewProduct(name, handle, price) ==
    [Handle |-> Some(handle), Name |-> name, Price |-> Some(price),
     Checked |-> None, Monitor |-> FALSE]

upsert_product_table(name, handle, price) ==
    IF get_product_by_handle(handle) # None THEN Products
    ELSE Append(Products, NewProduct(name, handle, price))

upsert_product(name, handle, price) ==
    LET existing == get_product_by_handle(handle)
    IN  IF existing # None THEN existing[1]
        ELSE [id |-> Len(Products) + 1, fields |-> NewProduct(name, handle, price)]

\* ------------------------------------------------------------ main.py
\* mutant: `<=` instead of `<`
price_dropped_or_equal(previous_price, current_price) ==
    previous_price # None /\ current_price <= previous_price[1]

price_dropped(previous_price, current_price) ==
    previous_price # None /\ current_price < previous_price[1]

\* the branch of the if / elif / else that logs the outcome of the comparison
classification(previous_price, current_price) ==
    IF price_dropped(previous_price, current_price) THEN "DROP"
    ELSE IF previous_price = None THEN "FIRST_CHECK_RECORDED"
    ELSE "NO_CHANGE"

\* mutant: the product is updated before the history row is written
check_product_writes_update_first == <<"update_product", "log_price_check">>

\* the two store writes of check_product, in program order
check_product_writes == <<"log_price_check", "update_product">>

\* mutant: `if handle is None: return`
skips_only_missing(fields) == fields.Handle = None

\* `if not handle: return`
skips(fields) == Falsy(fields.Handle)

\* mutant: the except clause logs the failure and does not count it
except_errors_uncounted(n) == n

\* the except clause of main's loop: count the error
except_errors(n) == n + 1

\* mutant: the except clause leaves the loop
except_next_abort(k) == Len(products) + 1

\* the except clause of main's loop: go on with the next record
except_next(k) == k + 1

\* mutant: the exit status ignores errors
exit_status_always_zero(n) == 0

\* `if errors: sys.exit(1)`, falling off the end of main otherwise
exit_status(n) == IF n # 0 THEN 1 ELSE 0

\* mutant: an exception raised in the loop body is swallowed and the loop goes on
sync_raise_swallowed == "sync"

\* sync has no try/except: an exception raised in its loop body leaves sync and
\* ends the process
sync_raise == "died"

\* sync: `if existing_handle == p.handle` on the record upsert_product returned
is_existing(result, p) == result.fields.Handle = Some(p.handle)

\* ---------------------------------------------------------- scraper.py
\* the products of one page of /collections/<handle>/products.json
RawProducts == [handle : Handles, title : {"new"}, variants : {<<[price |-> MaxPrice]>>}]
Batches == UNION {[1..n -> RawProducts] : n \in 0..MaxListing}

\* CollectionProduct(...) of one raw product: the first variant gives the price
CollectionProduct(raw) ==
    [handle |-> raw.handle, title |-> raw.title, price |-> raw.variants[1].price]

\* mutant: a page that is not full is taken for the last one
is_last_page_when_short(batch) == Len(batch) < MaxListing

\* `if not batch: break`
is_last_page(batch) == batch = << >>

\* `for p in batch: products.append(CollectionProduct(...))`
extend(collected, batch) ==
    collected \o [k \in 1..Len(batch) |-> CollectionProduct(batch[k])]

\* `page += 1`
next_page(n) == n + 1

\* ------------------------------------------------------- initial store
InitRows ==
    [Handle : OptHandles, Name : {"old"}, Price : OptPrices, Checked : {None}, Monitor : BOOLEAN]

\* a product that has a price was checked (or synced) some time before the model starts
Seeded(row) == [row EXCEPT !.Checked = IF row.Price = None THEN None ELSE Some(0)]

NoDuplicateHandles(rows) ==
    \A m, n \in 1..Len(rows) :
        (m # n /\ ~Falsy(rows[m].Handle)) => rows[m].Handle # rows[n].Handle

\* the store before the first process: empty, or one product the owner entered
\* (every further product is created by sync)
InitStores == {<< >>} \cup {<<Seeded(row)>> : row \in InitRows}

\* what the storefront may list: sequences of CollectionProduct.  The listed price
\* is the full price; what fetch_price returns later may be any price.
ListingEntries == [handle : Handles, title : {"new"}, price : {MaxPrice}]
Listings == UNION {[1..n -> ListingEntries] : n \in 0..MaxListing}

NoCheck == [hist |-> << >>, row |-> None]

Init ==
    /\ Products \in InitStores
    /\ PriceHistory = << >>
    /\ clock = 1
    /\ runs = 0
    /\ proc = "none"
    /\ pc = "idle"
    /\ exit = None
    /\ products = << >>
    /\ i = 1
    /\ errors = 0
    /\ step = 1
    /\ price_data = 0
    /\ trace = << >>
    /\ fetches = << >>
    /\ pre = NoCheck
    /\ recorded = << >>
    /\ listing = << >>
    /\ page = 1
    /\ requests = << >>
    /\ j = 1
    /\ added = 0
    /\ skipped = 0
    /\ upserts = << >>
    /\ reported = None

\* a process starts with fresh locals
FreshMain ==
    /\ i' = 1
    /\ errors' = 0
    /\ step' = 1
    /\ price_data' = 0
    /\ trace' = << >>
    /\ fetches' = << >>
    /\ pre' = NoCheck
    /\ UNCHANGED recorded

FreshSync ==
    /\ page' = 1
    /\ requests' = << >>
    /\ j' = 1
    /\ added' = 0
    /\ skipped' = 0
    /\ upserts' = << >>
    /\ reported' = None

\* no process is running: the next one can be started
Stopped == pc \in {"idle", "died"}

\* ------------------------------------------------- main.py: main()
\* get_monitored_products() returned; an empty list makes main return at once
main_start ==
    /\ Stopped
    /\ runs < MaxRuns
    /\ runs' = runs + 1
    /\ proc' = "main"
    /\ products' = get_monitored_products
    /\ FreshMain
    /\ FreshSync
    /\ listing' = << >>
    /\ IF get_monitored_products = << >>
       THEN pc' = "idle" /\ exit' = Some(0)
       ELSE pc' = "main" /\ exit' = None
    /\ UNCHANGED storeVars

\* get_monitored_products() raised: nothing in main catches it
main_list_raises ==
    /\ Stopped
    /\ runs < MaxRuns
    /\ runs' = runs + 1
    /\ proc' = "main"
    /\ products' = << >>
    /\ FreshMain
    /\ FreshSync
    /\ listing' = << >>
    /\ pc' = "died"
    /\ exit' = Some(1)
    /\ UNCHANGED storeVars

record == products[i]

Returned(result) ==
    /\ trace' = Append(trace, [id |-> record.id, result |-> result])
    /\ step' = 1
    /\ pc' = "main"

\* check_product returned normally
Return(result) ==
    /\ Returned(result)
    /\ i' = i + 1
    /\ UNCHANGED errors

\* check_product raised: the except clause of main
Raise(result) ==
    /\ Returned(result)
    /\ i' = except_next(i)
    /\ errors' = except_errors(errors)

\* a check_product call that got as far as its store writes ends
Ended(result) ==
    recorded' = IF Len(PriceHistory') > Len(pre.hist)
                THEN Append(recorded, [id |-> record.id, result |-> result])
                ELSE recorded

\* check_product, no handle: skipped
check_skip ==
    /\ pc = "main"
    /\ i <= Len(products)
    /\ skips(record.fields)
    /\ pre' = [hist |-> PriceHistory, row |-> Some(Products[record.id])]
    /\ Return("skipped")
    /\ UNCHANGED <<storeVars, runs, proc, exit, products, price_data, fetches, recorded>>
    /\ UNCHANGED syncVars

\* check_product up to fetch_price, which returned price p
check_fetch(p) ==
    /\ pc = "main"
    /\ i <= Len(products)
    /\ ~skips(record.fields)
    /\ pre' = [hist |-> PriceHistory, row |-> Some(Products[record.id])]
    /\ fetches' = Append(fetches, record.fields.Handle)
    /\ price_data' = p
    /\ pc' = "check"
    /\ step' = 1
    /\ UNCHANGED <<storeVars, runs, proc, exit, products, i, errors, trace, recorded>>
    /\ UNCHANGED syncVars

\* check_product up to fetch_price, which raised
check_fetch_raises ==
    /\ pc = "main"
    /\ i <= Len(products)
    /\ ~skips(record.fields)
    /\ pre' = [hist |-> PriceHistory, row |-> Some(Products[record.id])]
    /\ fetches' = Append(fetches, record.fields.Handle)
    /\ Raise("fetch_error")
    /\ UNCHANGED <<storeVars, runs, proc, exit, products, price_data, recorded>>
    /\ UNCHANGED syncVars

\* after the write at position step: the next write, or return
Advance ==
    IF step < Len(check_product_writes)
    THEN /\ step' = step + 1
         /\ UNCHANGED <<pc, i, errors, trace, recorded>>
    ELSE Return("ok") /\ Ended("ok")

previous_price == record.fields.Price
current_price == price_data

\* check_product: the call of log_price_check succeeded
check_log ==
    /\ pc = "check"
    /\ check_product_writes[step] = "log_price_check"
    /\ PriceHistory' = log_price_check(record.id, current_price, previous_price,
                                       price_dropped(previous_price, current_price), clock)
    /\ clock' = clock + 1
    /\ Advance
    /\ UNCHANGED <<Products, runs, proc, exit, products, price_data, fetches, pre>>
    /\ UNCHANGED syncVars

\* check_product: the call of update_product succeeded
check_update ==
    /\ pc = "check"
    /\ check_product_writes[step] = "update_product"
    /\ Products' = update_product(record.id, current_price, clock)
    /\ clock' = clock + 1
    /\ UNCHANGED <<PriceHistory, runs, proc, exit, products, price_data, fetches, pre>>
    /\ Advance
    /\ UNCHANGED syncVars

\* check_product: the store write at position step raised
check_write_raises ==
    /\ pc = "check"
    /\ UNCHANGED <<storeVars, runs, proc, exit, products, price_data, fetches, pre>>
    /\ LET result == IF check_product_writes[step] = "log_price_check"
                     THEN "log_error" ELSE "update_error"
       IN  Raise(result) /\ Ended(result)
    /\ UNCHANGED syncVars

\* the loop is over: "Done.", then sys.exit(1) if errors
main_end ==
    /\ pc = "main"
    /\ i > Len(products)
    /\ pc' = "idle"
    /\ exit' = Some(exit_status(errors))
    /\ UNCHANGED <<storeVars, runs, proc>>
    /\ UNCHANGED mainVars
    /\ UNCHANGED syncVars

\* ------------------------------------------- sync_products.py: sync()
\* sync calls fetch_collection_products(): products = [], page = 1
sync_start ==
    /\ Stopped
    /\ runs < MaxRuns
    /\ runs' = runs + 1
    /\ proc' = "sync"
    /\ listing' = << >>
    /\ FreshSync
    /\ FreshMain
    /\ products' = << >>
    /\ pc' = "fetch"
    /\ exit' = None
    /\ UNCHANGED storeVars

\* fetch_collection_products: one pass of `while True`, the page request answered
\* with batch: an empty batch ends the loop and the list goes to sync
fetch_page(batch) ==
    /\ pc = "fetch"
    /\ Len(listing) + Len(batch) <= MaxListing
    /\ requests' = Append(requests, [page |-> page, batch |-> batch])
    /\ IF is_last_page(batch)
       THEN /\ pc' = "sync"
            /\ UNCHANGED <<listing, page>>
       ELSE /\ listing' = extend(listing, batch)
            /\ page' = next_page(page)
            /\ pc' = "fetch"
    /\ UNCHANGED <<storeVars, runs, proc, exit, j, added, skipped, upserts, reported>>
    /\ UNCHANGED mainVars

\* fetch_collection_products: a page request raised (transport or HTTP error, or a
\* malformed document): nothing in sync catches it
sync_fetch_raises ==
    /\ pc = "fetch"
    /\ pc' = "died"
    /\ exit' = Some(1)
    /\ UNCHANGED <<storeVars, runs, proc>>
    /\ UNCHANGED mainVars
    /\ UNCHANGED syncVars

p == listing[j]

\* one pass of the loop body: upsert_product, then the [exists] / [added] tally
sync_upsert ==
    /\ pc = "sync"
    /\ j <= Len(listing)
    /\ LET result == upsert_product(p.title, p.handle, p.price)
           table == upsert_product_table(p.title, p.handle, p.price)
       IN  /\ Products' = table
           /\ clock' = IF table # Products THEN clock + 1 ELSE clock
           /\ upserts' = Append(upserts, [handle |-> p.handle,
                                          table |-> Products,
                                          created |-> Len(table) > Len(Products),
                                          id |-> result.id,
                                          row |-> result.fields])
           /\ IF is_existing(result, p)
              THEN skipped' = skipped + 1 /\ added' = added
              ELSE added' = added + 1 /\ skipped' = skipped
    /\ j' = j + 1
    /\ UNCHANGED <<PriceHistory, runs, proc, pc, exit, listing, page, requests, reported>>
    /\ UNCHANGED mainVars

\* upsert_product raised (lookup or create failed): the process dies in the loop
sync_upsert_raises ==
    /\ pc = "sync"
    /\ j <= Len(listing)
    /\ pc' = sync_raise
    /\ exit' = Some(1)
    /\ UNCHANGED <<storeVars, runs, proc>>
    /\ UNCHANGED mainVars
    /\ UNCHANGED syncVars

\* the loop is over: "Sync complete. %d added, %d already existed."
sync_end ==
    /\ pc = "sync"
    /\ j > Len(listing)
    /\ reported' = Some([added |-> added, existing |-> skipped])
    /\ pc' = "idle"
    /\ exit' = Some(0)
    /\ UNCHANGED <<storeVars, runs, proc, listing, page, requests, j, added, skipped, upserts>>
    /\ UNCHANGED mainVars

\* the owner ticks Monitor on a product in Airtable, between two processes
tick_monitor(id) ==
    /\ Stopped
    /\ runs < MaxRuns
    /\ ~Products[id].Monitor
    /\ Products' = [Products EXCEPT ![id].Monitor = TRUE]
    /\ UNCHANGED <<PriceHistory, clock, runs, proc, pc, exit>>
    /\ UNCHANGED mainVars
    /\ UNCHANGED syncVars

Next ==
    \/ main_start
    \/ main_list_raises
    \/ check_skip
    \/ \E price \in Prices : check_fetch(price)
    \/ check_fetch_raises
    \/ check_log
    \/ check_update
    \/ check_write_raises
    \/ main_end
    \/ sync_start
    \/ \E batch \in Batches : fetch_page(batch)
    \/ sync_fetch_raises
    \/ sync_upsert
    \/ sync_upsert_raises
    \/ sync_end
    \/ \E id \in 1..Len(Products) : tick_monitor(id)

Spec == Init /\ [][Next]_vars

\* ===================================================================
\* Properties
\* ===================================================================
Errors == {"fetch_error", "log_error", "update_error"}

\* a check_product call of this run has returned or raised, and none is under way:
\* pre and price_data are those of the call Last(trace) reports
CallOver == proc = "main" /\ pc \in {"main", "idle"} /\ trace # << >>

\* the history row of the check_product call under way, or just over, is written
Logged ==
    /\ proc = "main"
    /\ pre.row # None
    /\ Len(PriceHistory) = Len(pre.hist) + 1

\* the product's row in the store when that call began
Prior == pre.row[1]

\* C1: the history row check_product writes has Price Dropped true exactly when the
\* product had a recorded price and the fetched price is strictly below it
C1_DropIffStrictlyLower ==
    Logged =>
        LET entry == Last(PriceHistory)
        IN  /\ entry.Price = price_data
            /\ entry.Dropped \in BOOLEAN
            /\ entry.Dropped = (IF Prior.Price = None THEN FALSE
                                ELSE price_data < Prior.Price[1])

\* a drop row, and a row for an unchanged price that is no drop
C1_Witness ==
    /\ Logged
    /\ \E m, n \in 1..Len(PriceHistory) :
        /\ PriceHistory[m].Dropped
        /\ PriceHistory[m].Previous # None
        /\ PriceHistory[m].Price < PriceHistory[m].Previous[1]
        /\ ~PriceHistory[n].Dropped
        /\ PriceHistory[n].Previous = Some(PriceHistory[n].Price)

\* C2: for a product with no recorded price the history row has Price Dropped
\* false and no Previous Price, whatever price was fetched
C2_FirstCheckRecorded ==
    (Logged /\ Prior.Price = None) =>
        /\ Last(PriceHistory).Dropped = FALSE
        /\ Last(PriceHistory).Previous = None
        /\ Last(PriceHistory).Price = price_data

\* a first check that fetched the lowest price
C2_Witness ==
    /\ Logged
    /\ Prior.Price = None
    /\ Last(PriceHistory).Price = 0

\* C3: when check_product returns normally, the history is the history as it was
\* plus one row with the fetched price and the price recorded before the call,
\* and the product's Current Price is the fetched price
C3_CheckCompletes ==
    (CallOver /\ Last(trace).result = "ok") =>
        LET id == Last(trace).id
        IN  /\ Len(PriceHistory) = Len(pre.hist) + 1
            /\ SubSeq(PriceHistory, 1, Len(pre.hist)) = pre.hist
            /\ Last(PriceHistory).Product = id
            /\ Last(PriceHistory).Price = price_data
            /\ Last(PriceHistory).Previous = Prior.Price
            /\ Products[id].Price = Some(price_data)

\* the scenario: recorded 1, fetched 0
C3_Witness ==
    /\ CallOver
    /\ Last(trace).result = "ok"
    /\ Prior.Price = Some(1)
    /\ price_data = 0
    /\ Last(PriceHistory).Dropped
    /\ Last(PriceHistory).Previous = Some(1)
    /\ Products[Last(trace).id].Price = Some(0)

\* the record of the check_product call under way or just over
CheckedId == IF pc = "check" THEN record.id ELSE Last(trace).id

\* the history row of that call is the one new row of the history
HistoryWritten ==
    /\ Len(PriceHistory) = Len(pre.hist) + 1
    /\ SubSeq(PriceHistory, 1, Len(pre.hist)) = pre.hist
    /\ Last(PriceHistory).Product = CheckedId
    /\ Last(PriceHistory).Price = price_data

\* C4: within one check the history row is written before the product is updated:
\* whenever update_product is about to run, or the product's row differs from what
\* it was when the check began, the history row is there; and when update_product
\* fails, the history row is there and Current Price and Last Checked are as before
C4_HistoryBeforeUpdate ==
    /\ (pc = "check" /\ check_product_writes[step] = "update_product") => HistoryWritten
    /\ (proc = "main" /\ (pc = "check" \/ CallOver) /\ pre.row # None
            /\ Products[CheckedId] # Prior)
        => HistoryWritten
    /\ (CallOver /\ Last(trace).result = "update_error")
        => /\ HistoryWritten
           /\ Products[CheckedId].Price = Prior.Price
           /\ Products[CheckedId].Checked = Prior.Checked

\* update_product failed after a price change was logged
C4_Witness ==
    /\ CallOver
    /\ Last(trace).result = "update_error"
    /\ HistoryWritten
    /\ Prior.Price # None
    /\ Prior.Price # Some(price_data)
    /\ Products[CheckedId] = Prior

ErrorCount == Cardinality({k \in 1..Len(trace) : trace[k].result \in Errors})

\* C5: main attempts every record of the monitored list exactly once, in list
\* order, whichever of them fail, and errors is the number of calls that raised
C5_FailureIsolation ==
    (proc = "main" /\ pc \in {"main", "check", "idle"}) =>
        /\ Len(trace) = (IF pc = "idle" THEN Len(products) ELSE i - 1)
        /\ \A k \in 1..Len(trace) : trace[k].id = products[k].id
        /\ \A m, n \in 1..Len(products) : m # n => products[m].id # products[n].id
        /\ pc = "check" => i <= Len(products)
        /\ errors = ErrorCount

\* the first product failed, the second was checked all the same
C5_Witness ==
    /\ proc = "main"
    /\ pc = "idle"
    /\ Len(products) >= 2
    /\ Len(trace) = Len(products)
    /\ trace[1].result \in Errors
    /\ trace[2].result = "ok"
    /\ errors = 1

\* C6 as claimed: the Check Workflow process ends non-zero exactly when some
\* product's check failed, and only after every monitored product was attempted
C6_ExitIffProductFailed ==
    /\ (proc = "main" /\ pc \in {"main", "check"}) => exit = None
    /\ (proc = "main" /\ Stopped) =>
        /\ exit \in {Some(0), Some(1)}
        /\ (exit = Some(1)) = (ErrorCount > 0)
        /\ Len(trace) = Len(products)

\* C6 as amended: the process ends non-zero exactly when some product's check
\* failed or reading the monitored list itself failed; in the first case only
\* after every monitored product was attempted, in the second before any was;
\* a run without failure, one with no monitored product included, ends with 0
C6_ExitStatus ==
    /\ (proc = "main" /\ pc \in {"main", "check"}) => exit = None
    /\ (proc = "main" /\ Stopped) =>
        /\ exit \in {Some(0), Some(1)}
        /\ (exit = Some(1)) = (ErrorCount > 0 \/ pc = "died")
        /\ pc = "idle" => Len(trace) = Len(products)
        /\ pc = "died" => (trace = << >> /\ fetches = << >>)

\* a run that ends with status 1 after a failure on its first product of two
C6_Witness ==
    /\ proc = "main"
    /\ pc = "idle"
    /\ exit = Some(1)
    /\ Len(products) >= 2
    /\ Len(trace) = Len(products)
    /\ trace[1].result = "fetch_error"

Attempted == {k \in 1..Len(trace) : trace[k].result # "skipped"}

\* C7: a monitored product without a handle, or with an empty one, is skipped:
\* fetch_price is not called for it, the store is left as it was, errors does not
\* count it, and a run in which nothing else goes wrong ends with status 0
C7_SkipNoHandle ==
    proc = "main" =>
        /\ \A k \in 1..Len(trace) :
            Falsy(products[k].fields.Handle) = (trace[k].result = "skipped")
        /\ \A k \in 1..Len(fetches) : ~Falsy(fetches[k])
        /\ Len(fetches) = Cardinality(Attempted) + (IF pc = "check" THEN 1 ELSE 0)
        /\ (CallOver /\ Last(trace).result = "skipped") =>
            /\ PriceHistory = pre.hist
            /\ Products[CheckedId] = Prior
        /\ errors = ErrorCount
        /\ (pc = "idle" /\ \A k \in 1..Len(trace) : trace[k].result \in {"skipped", "ok"})
            => exit = Some(0)

\* a run over a product with an empty handle and a product that was checked
C7_Witness ==
    /\ proc = "main"
    /\ pc = "idle"
    /\ exit = Some(0)
    /\ errors = 0
    /\ \E m, n \in 1..Len(trace) :
        /\ products[m].fields.Handle = Some("")
        /\ trace[m].result = "skipped"
        /\ trace[n].result = "ok"

Created == {n \in 1..Len(upserts) : upserts[n].created}

\* C8 as claimed: the tally sync logs has added = the number of upserts that
\* created a product and existing = the number that found the handle present
C8_SyncTally ==
    (proc = "sync" /\ reported # None) =>
        /\ reported[1].added = Cardinality(Created)
        /\ reported[1].existing = Len(listing) - Cardinality(Created)
        /\ reported[1].added + reported[1].existing = Len(listing)

\* the table after the n-th upsert_product call of this sync run
TableAfter(n) == IF n < Len(upserts) THEN upserts[n + 1].table ELSE Products

HasHandle(table, handle) == \E k \in 1..Len(table) : table[k].Handle = Some(handle)

\* C9: upsert by handle is idempotent: a call creates a product (Monitor off)
\* exactly when the handle is not in the table, and otherwise leaves the table
\* as it is; so of two successive calls for one handle the second creates
\* nothing and returns the product of the first, unchanged
C9_UpsertIdempotent ==
    pc = "sync" =>
        /\ \A n \in 1..Len(upserts) :
            LET call == upserts[n]
            IN  /\ call.created = ~HasHandle(call.table, call.handle)
                /\ call.created =>
                    /\ TableAfter(n) = Append(call.table, call.row)
                    /\ call.id = Len(call.table) + 1
                    /\ call.row.Handle = Some(call.handle)
                    /\ call.row.Monitor = FALSE
                /\ ~call.created =>
                    /\ TableAfter(n) = call.table
                    /\ call.table[call.id] = call.row
                    /\ call.row.Handle = Some(call.handle)
        /\ \A m, n \in 1..Len(upserts) :
            (m < n /\ upserts[m].handle = upserts[n].handle) =>
                /\ ~upserts[n].created
                /\ upserts[n].id = upserts[m].id
                /\ upserts[n].row = upserts[m].row
                /\ Products[upserts[n].id] = upserts[m].row

\* the same handle upserted twice: created by the first call, found by the second
C9_Witness ==
    /\ pc = "sync"
    /\ Len(upserts) >= 2
    /\ upserts[1].handle = upserts[2].handle
    /\ upserts[1].created
    /\ ~upserts[2].created

\* C10: the Products table never holds two products with the same handle
C10_OneProductPerHandle == NoDuplicateHandles(Products)

\* a sync that found one handle present and created another, after a check run
C10_Witness ==
    /\ proc = "sync"
    /\ pc = "idle"
    /\ PriceHistory # << >>
    /\ Len(Products) >= 2
    /\ Created # {}
    /\ \E n \in 1..Len(upserts) : ~upserts[n].created

\* the items of the first n pages received, in the order received
RECURSIVE Received(_)
Received(n) ==
    IF n = 0 THEN << >>
    ELSE Received(n - 1) \o
         [k \in 1..Len(requests[n].batch) |->
            [handle |-> requests[n].batch[k].handle,
             title |-> requests[n].batch[k].title,
             price |-> requests[n].batch[k].variants[1].price]]

\* fetch_collection_products has returned to sync in this run
FetchReturned == proc = "sync" /\ pc \in {"sync", "idle"}

\* C11: the listing requests pages 1, 2, ... and stops at the first empty page:
\* with pages 1..k-1 non-empty and page k empty exactly k requests are made, and
\* the list returned is pages 1..k-1 in order, nothing dropped or duplicated
C11_Pagination ==
    /\ proc = "sync" => \A n \in 1..Len(requests) : requests[n].page = n
    /\ pc = "fetch" =>
        /\ \A n \in 1..Len(requests) : requests[n].batch # << >>
        /\ page = Len(requests) + 1
        /\ listing = Received(Len(requests))
    /\ FetchReturned =>
        /\ Len(requests) >= 1
        /\ Last(requests).batch = << >>
        /\ \A n \in 1..(Len(requests) - 1) : requests[n].batch # << >>
        /\ listing = Received(Len(requests) - 1)
        /\ listing \in Listings

\* two pages of one item each, then the empty page: three requests, two items
C11_Witness ==
    /\ FetchReturned
    /\ Len(requests) = 3
    /\ Len(requests[1].batch) = 1
    /\ Len(requests[2].batch) = 1
    /\ Len(listing) = 2

\* the number of history rows of a product
Rows(id) == Cardinality({n \in 1..Len(PriceHistory) : PriceHistory[n].Product = id})

\* the number of recorded check_product calls for a product with one of the results
Calls(id, results) ==
    Cardinality({k \in 1..Len(recorded) : recorded[k].id = id /\ recorded[k].result \in results})

\* no check_product call is between its two writes
Settled == pc # "check"

\* C12 as claimed: every product has as many history rows as checks of it that
\* completed successfully
C12_OneRowPerSuccessfulCheck ==
    Settled => \A id \in 1..Len(Products) : Rows(id) = Calls(id, {"ok"})

\* what a check_product call that is over has added to the history
RowsOfLastCall ==
    CallOver =>
        Len(PriceHistory) - Len(pre.hist)
            = (IF Last(trace).result \in {"ok", "update_error"} THEN 1 ELSE 0)

\* C12 as amended: the history only grows at its end, rows once written never
\* change, and every product has as many rows as checks of it that got past their
\* history append: those that completed successfully and those that failed
\* afterwards in update_product; a skipped check and one that failed in fetch_price
\* or in log_price_check add no row
C12_AppendOnly ==
    [][/\ Len(PriceHistory') >= Len(PriceHistory)
       /\ SubSeq(PriceHistory', 1, Len(PriceHistory)) = PriceHistory
       /\ RowsOfLastCall'
       /\ Settled' =>
            (\A id \in 1..Len(Products) : Rows(id) = Calls(id, {"ok", "update_error"}))'
      ]_vars

\* two rows of one product: from a check that failed in update_product and from
\* one that completed
C12_Witness ==
    /\ pc = "idle"
    /\ Len(PriceHistory) = 2
    /\ Len(recorded) = 2
    /\ recorded[1].id = recorded[2].id
    /\ recorded[1].result = "update_error"
    /\ recorded[2].result = "ok"

\* the sync process has raised
SyncFailed == proc = "sync" /\ exit = Some(1)

\* the sync process has raised inside fetch_collection_products
FetchFailed ==
    /\ SyncFailed
    /\ IF requests = << >> THEN TRUE ELSE ~is_last_page(Last(requests).batch)

\* C13: the first error aborts the whole sync: when the listing fetch fails no
\* upsert has been performed; when the upsert of entry k fails exactly the entries
\* before k have been upserted; after the failure the process performs no upsert,
\* reports no tally and writes nothing, and the Products created before the failure
\* are still in the store
C13_SyncAborts ==
    [][/\ SyncFailed' =>
            /\ pc' = "died"
            /\ reported' = None
            /\ IF FetchFailed' THEN upserts' = << >>
               ELSE j' <= Len(listing') /\ Len(upserts') = j' - 1
            /\ \A n \in 1..Len(upserts') :
                    upserts'[n].created => HasHandle(Products', upserts'[n].handle)
       /\ (SyncFailed /\ runs' = runs) =>
            /\ UNCHANGED <<upserts, reported, PriceHistory>>
            /\ Len(Products') = Len(Products)
      ]_vars

\* the upsert of the second listing entry has raised after the first entry was
\* created
C13_Witness ==
    /\ SyncFailed
    /\ ~FetchFailed
    /\ j = 2
    /\ upserts[1].created
    /\ HasHandle(Products, upserts[1].handle)

\* C14: the history row has no Previous Price exactly when the product had no
\* recorded price; a recorded price of 0 is a prior price: the row carries
\* Previous Price 0 and the check is classified NO_CHANGE or DROP
C14_PreviousOmittedIffAbsent ==
    Logged =>
        LET entry == Last(PriceHistory)
            class == classification(Prior.Price, price_data)
        IN  /\ (entry.Previous = None) <=> (Prior.Price = None)
            /\ entry.Previous = Prior.Price
            /\ (class = "FIRST_CHECK_RECORDED") <=> (Prior.Price = None)
            /\ (class = "DROP") <=> entry.Dropped
            /\ Prior.Price = Some(0) =>
                /\ entry.Previous = Some(0)
                /\ class \in {"NO_CHANGE", "DROP"}

\* a check of a product whose recorded price was 0 has written its history row
C14_Witness ==
    /\ Logged
    /\ Prior.Price = Some(0)
    /\ Last(PriceHistory).Previous = Some(0)
    /\ classification(Prior.Price, price_data) = "NO_CHANGE"

\* a step of the check process: its start, or a step of main or of check_product
MainStep ==
    \/ proc' = "main" /\ runs' # runs
    \/ proc = "main" /\ pc \in {"main", "check"}

\* the fields of a product other than Current Price and Last Checked
Frame(row) == [Handle |-> row.Handle, Name |-> row.Name, Monitor |-> row.Monitor]

\* C15: no step of the check process creates or deletes a Product, or changes the
\* handle, the name or the monitor flag of one, whether its checks fail or not
C15_CheckFrame ==
    [][MainStep =>
        /\ Len(Products') = Len(Products)
        /\ \A id \in 1..Len(Products) : Frame(Products'[id]) = Frame(Products[id])
      ]_vars

\* a check has completed and changed its product, handle, name and monitor flag
\* aside
C15_Witness ==
    /\ CallOver
    /\ Last(trace).result = "ok"
    /\ Products[CheckedId] # Prior
    /\ Frame(Products[CheckedId]) = Frame(Prior)
    /\ Products[CheckedId].Price = Some(price_data)

\* C16: while check_product is at its writes, the previous price it uses (that of
\* the record main read before the loop) is the price the store held for the
\* product when the call began: no earlier call of the run was for this product,
\* and the history row carries that price and the flag computed from it, also
\* after the product has been given the fetched price
C16_PriorCapturedBeforeWrites ==
    (proc = "main" /\ pc = "check") =>
        /\ pre.row # None
        /\ previous_price = Prior.Price
        /\ \A k \in 1..(i - 1) : products[k].id # record.id
        /\ Len(PriceHistory) > Len(pre.hist) =>
            /\ Last(PriceHistory).Previous = Prior.Price
            /\ Last(PriceHistory).Dropped = price_dropped(Prior.Price, price_data)

\* the second check of a run, after a first check that wrote both its rows, has
\* written its history row
C16_Witness ==
    /\ proc = "main"
    /\ pc = "check"
    /\ i = 2
    /\ trace[1].result = "ok"
    /\ Len(PriceHistory) > Len(pre.hist)
    /\ Last(PriceHistory).Previous = Prior.Price

\* rows m < n of the history are consecutive rows of one product
Consecutive(m, n) ==
    /\ m < n
    /\ PriceHistory[m].Product = PriceHistory[n].Product
    /\ \A k \in (m + 1)..(n - 1) : PriceHistory[k].Product # PriceHistory[m].Product

\* C17 as claimed: of two consecutive history rows of one product the later one's
\* Previous Price is the earlier one's Price, store write failures included
C17_HistoryChain ==
    \A m, n \in 1..Len(PriceHistory) :
        Consecutive(m, n) => PriceHistory[n].Previous = Some(PriceHistory[m].Price)

\* the step ends a check_product call whose fetch_price raised
FetchFails ==
    /\ proc = "main"
    /\ Len(trace') = Len(trace) + 1
    /\ Last(trace').result = "fetch_error"

\* C18: a check whose price fetch raises writes nothing: no history row is added,
\* the product keeps its Current Price and Last Checked, and errors grows by
\* exactly one; when the call is over the store still shows the product as it was
\* when the call began
C18_FetchFailureLeavesStore ==
    [][/\ FetchFails =>
            /\ errors' = errors + 1
            /\ PriceHistory' = PriceHistory
            /\ Products' = Products
            /\ fetches' = Append(fetches, record.fields.Handle)
       /\ (CallOver /\ Last(trace).result = "fetch_error")' =>
            (/\ PriceHistory = pre.hist
             /\ Products[CheckedId].Price = Prior.Price
             /\ Products[CheckedId].Checked = Prior.Checked
             /\ errors = ErrorCount)'
      ]_vars

\* the fetch for a product with a recorded price has raised, after a check of the
\* same run that completed
C18_Witness ==
    /\ proc = "main"
    /\ pc = "main"
    /\ Len(trace) = 2
    /\ trace[1].result = "ok"
    /\ trace[2].result = "fetch_error"
    /\ errors = 1
    /\ Prior.Price # None
    /\ Products[CheckedId].Price = Prior.Price
    /\ PriceHistory = pre.hist

====
